---- MODULE Spec2Model ----
(***************************************************************************)
(* The card-game engine of kiki-8-2.0 (the shop variant, whose App         *)
(* component holds gameState, stars and inventory as React state).         *)
(* Every event handler is one atomic action; the AI move is a timer whose  *)
(* callback closes over the render in which the effect armed it.           *)
(***************************************************************************)
EXTENDS Integers, Sequences, FiniteSets, TLC

(* ------------------------------- bounds -------------------------------- *)

\* Number of ranks of the deck universe, taken from "7" upwards in RANKS.
NumRanks == 3

\* Cards dealt to each hand by initGame (the source deals 8 of 52).
HandSize == 2

\* Number of rotations of the ordered deck offered to the shuffle.
NumRotations == 2

\* Number of handler calls explored from the home screen.
MaxSteps == 7

\* Number of handler calls explored when rounds are dealt from the 52 cards.
StandardSteps == 5

\* Number of calls of the user explored when the AI's timer is left to fire
\* whenever it is due.
LiveSteps == 4

\* Number of handler calls explored when rounds are dealt from the short deck.
ShortSteps == 11

(* --------------------------- cards and decks --------------------------- *)

SUITS == <<"hearts", "diamonds", "clubs", "spades">>

RANKS == <<"A", "2", "3", "4", "5", "6", "7", "8", "9", "10", "J", "Q", "K">>

Suit == {SUITS[i] : i \in 1..Len(SUITS)}

\* The ranks in play: a window of RANKS that holds the wild rank.
RankWindow == SubSeq(RANKS, 7, 6 + NumRanks)

NoSuit == "null"

NoCard == [id |-> 0, suit |-> NoSuit, rank |-> NoSuit]

\* One card per suit and rank of ranks, ids 1..N in suit-major order.
orderedDeckOf(ranks) ==
  [i \in 1..(Len(SUITS) * Len(ranks)) |->
     [id   |-> i,
      suit |-> SUITS[((i - 1) \div Len(ranks)) + 1],
      rank |-> ranks[((i - 1) % Len(ranks)) + 1]]]

\* The ordered deck of the ranks in play.
OrderedDeck == orderedDeckOf(RankWindow)

\* The ordered deck of every rank: the 52 cards of the source.
StandardDeck == orderedDeckOf(RANKS)

DeckSize == Len(OrderedDeck)

Card == {OrderedDeck[i] : i \in 1..DeckSize}

RECURSIVE Gcd(_, _)
Gcd(a, b) == IF b = 0 THEN a ELSE Gcd(b, a % b)

\* A shuffle is a permutation of the ordered deck: start at a rotation and
\* walk the deck with a stride coprime to its size.
shuffleSeedsOf(ordered) ==
  {<<r, s>> : r \in 0..(NumRotations - 1),
              s \in {k \in {1, 5, 7} : Gcd(Len(ordered), k) = 1}}

shuffled(ordered, seed) ==
  [i \in 1..Len(ordered) |->
     ordered[((seed[1] + (i - 1) * seed[2]) % Len(ordered)) + 1]]

ShuffleSeeds == shuffleSeedsOf(OrderedDeck)

createDeck(seed) == shuffled(OrderedDeck, seed)

\* createDeck over the 52 cards
createStandardDeck(seed) == shuffled(StandardDeck, seed)

\* The ordered deck of the ranks 7 and 8 only, which play exhausts in a few
\* calls, and createDeck over it.
ShortDeck == orderedDeckOf(SubSeq(RANKS, 7, 8))

createShortDeck(seed) == shuffled(ShortDeck, seed)

\* The shuffles offered of the short deck: its rotations
ShortShuffleSeeds == {<<r, 1>> : r \in 0..(NumRotations - 1)}

(* --------------------------- sequence helpers -------------------------- *)

Range(s) == {s[i] : i \in 1..Len(s)}

\* Array.prototype.filter(c => c.id !== id)
RECURSIVE withoutId(_, _)
withoutId(hand, id) ==
  IF hand = <<>> THEN <<>>
  ELSE IF Head(hand).id = id THEN withoutId(Tail(hand), id)
       ELSE <<Head(hand)>> \o withoutId(Tail(hand), id)

\* Array.prototype.filter with a predicate given as a set of accepted cards
RECURSIVE filterIn(_, _)
filterIn(hand, ok) ==
  IF hand = <<>> THEN <<>>
  ELSE IF Head(hand) \in ok THEN <<Head(hand)>> \o filterIn(Tail(hand), ok)
       ELSE filterIn(Tail(hand), ok)

(* ------------------------------ game state ----------------------------- *)

\* useState<GameState>'s initial value
ConstructedGame ==
  [deck |-> <<>>, discardPile |-> <<>>, playerHand |-> <<>>, aiHand |-> <<>>,
   currentTurn |-> "player", status |-> "playing", wildSuit |-> NoSuit]

ConstructedInventory == [p1 |-> 0, p2 |-> 0, p3 |-> 0, p4 |-> 0]

\* The number of cards initGame deals to each hand in the source
SourceHandSize == 8

\* A deal whose first discard is read from the deck but left in it
dealOf_KeepsDiscardInDeck(fullDeck, n) ==
  [deck        |-> SubSeq(fullDeck, 2 * n + 1, Len(fullDeck)),
   discardPile |-> <<fullDeck[Len(fullDeck)]>>,
   playerHand  |-> SubSeq(fullDeck, 1, n),
   aiHand      |-> SubSeq(fullDeck, n + 1, 2 * n),
   currentTurn |-> "player",
   status      |-> "playing",
   wildSuit    |-> NoSuit]

\* The state initGame sets: two splices of n cards from the front, one pop
\* from the end
dealOf(fullDeck, n) ==
  [deck        |-> SubSeq(fullDeck, 2 * n + 1, Len(fullDeck) - 1),
   discardPile |-> <<fullDeck[Len(fullDeck)]>>,
   playerHand  |-> SubSeq(fullDeck, 1, n),
   aiHand      |-> SubSeq(fullDeck, n + 1, 2 * n),
   currentTurn |-> "player",
   status      |-> "playing",
   wildSuit    |-> NoSuit]

\* initGame on the scaled deck
initGame(fullDeck) == dealOf(fullDeck, HandSize)

\* initGame as the source has it: hands of 8
initStandardGame(fullDeck) == dealOf(fullDeck, SourceHandSize)

topDiscardOf(gs) ==
  IF Len(gs.discardPile) > 0 THEN gs.discardPile[Len(gs.discardPile)] ELSE NoCard

currentSuitOf(gs) ==
  IF gs.wildSuit # NoSuit THEN gs.wildSuit ELSE topDiscardOf(gs).suit

\* The legality test shared by isCardPlayable and the AI's filter
matchesTop(card, gs) ==
  \/ card.rank = "8"
  \/ card.suit = currentSuitOf(gs)
  \/ card.rank = topDiscardOf(gs).rank

\* isCardPlayable without the match against the top discard
isCardPlayable_AnyCard(card, gs) ==
  IF gs.status # "playing" \/ gs.currentTurn # "player" \/ topDiscardOf(gs) = NoCard
  THEN FALSE
  ELSE TRUE

isCardPlayable(card, gs) ==
  IF gs.status # "playing" \/ gs.currentTurn # "player" \/ topDiscardOf(gs) = NoCard
  THEN FALSE
  ELSE matchesTop(card, gs)

(* ------------------------- AI suit choice (8) -------------------------- *)

\* suitCounts[s]
suitCount(hand, s) == Cardinality({i \in 1..Len(hand) : hand[i].suit = s})

\* Object.keys(suitCounts): the suits of the hand in order of first occurrence
suitKeys(hand) ==
  LET firsts == {i \in 1..Len(hand) :
                   \A j \in 1..(i - 1) : hand[j].suit # hand[i].suit}
  IN [k \in 1..Cardinality(firsts) |->
        hand[CHOOSE i \in firsts : Cardinality({j \in firsts : j < i}) = k - 1].suit]

\* The comparator's order on the positions of keys: a larger count goes
\* first, and the sort, being stable, keeps equal counts in their order.
sortsBefore(keys, hand, i, j) ==
  \/ suitCount(hand, keys[i]) > suitCount(hand, keys[j])
  \/ suitCount(hand, keys[i]) = suitCount(hand, keys[j]) /\ i < j

\* keys.sort((a, b) => suitCounts[b] - suitCounts[a]); k and h are keys and
\* hand, bound once.
sortByCount(keys, hand) ==
  CHOOSE sorted \in
    {[p \in 1..Len(k) |->
        k[CHOOSE i \in 1..Len(k) :
            Cardinality({j \in 1..Len(k) : sortsBefore(k, h, j, i)}) = p - 1]]
       : k \in {keys}, h \in {hand}} : TRUE

\* The pre-calculation without its sort: the first key of suitCounts
aiChosenSuitOf_Unsorted(renderGs, card, isPlayer) ==
  IF ~isPlayer /\ card.rank = "8"
  THEN LET currentHand == withoutId(renderGs.aiHand, card.id)
           keys        == suitKeys(currentHand)
       IN IF keys = <<>> THEN "hearts" ELSE keys[1]
  ELSE NoSuit

\* The pre-calculation at the head of playCard, made on the aiHand of the
\* render that created this playCard.
aiChosenSuitOf(renderGs, card, isPlayer) ==
  IF ~isPlayer /\ card.rank = "8"
  THEN LET currentHand == withoutId(renderGs.aiHand, card.id)
           sorted      == sortByCount(suitKeys(currentHand), currentHand)
       IN IF sorted = <<>> THEN "hearts" ELSE sorted[1]
  ELSE NoSuit

(* ------------------------------- playCard ------------------------------ *)

handOf(gs, isPlayer) == IF isPlayer THEN gs.playerHand ELSE gs.aiHand

\* A hand key that is always playerHand
withHand_AlwaysPlayerHand(gs, isPlayer, hand) ==
  [gs EXCEPT !.playerHand = hand]

withHand(gs, isPlayer, hand) ==
  IF isPlayer THEN [gs EXCEPT !.playerHand = hand] ELSE [gs EXCEPT !.aiHand = hand]

nextTurnOf(isPlayer) == IF isPlayer THEN "ai" ELSE "player"

wonStatus(isPlayer) == IF isPlayer THEN "player_won" ELSE "ai_won"

\* newStatus of the updater: the emptied-hand check
newStatusOf(prev, card, isPlayer) ==
  IF Len(withoutId(handOf(prev, isPlayer), card.id)) = 0
  THEN wonStatus(isPlayer)
  ELSE prev.status

\* playCard whose player-8 branch passes the turn like any other play
playCardUpdate_EightPassesTurn(prev, card, isPlayer, aiChosenSuit) ==
  LET newHand == withoutId(handOf(prev, isPlayer), card.id)
      moved   == [withHand(prev, isPlayer, newHand)
                    EXCEPT !.discardPile = Append(prev.discardPile, card)]
  IN IF card.rank = "8"
     THEN IF isPlayer
          THEN [moved EXCEPT !.status = "waiting_for_suit",
                             !.currentTurn = nextTurnOf(isPlayer)]
          ELSE [moved EXCEPT !.wildSuit = aiChosenSuit,
                             !.currentTurn = nextTurnOf(isPlayer),
                             !.status = newStatusOf(prev, card, isPlayer)]
     ELSE [moved EXCEPT !.currentTurn = nextTurnOf(isPlayer),
                        !.status = newStatusOf(prev, card, isPlayer),
                        !.wildSuit = NoSuit]

\* playCard whose non-8 branch forgets to reset wildSuit
playCardUpdate_KeepsWildSuit(prev, card, isPlayer, aiChosenSuit) ==
  LET newHand == withoutId(handOf(prev, isPlayer), card.id)
      moved   == [withHand(prev, isPlayer, newHand)
                    EXCEPT !.discardPile = Append(prev.discardPile, card)]
  IN IF card.rank = "8"
     THEN IF isPlayer
          THEN [moved EXCEPT !.status = "waiting_for_suit",
                             !.currentTurn = "player"]
          ELSE [moved EXCEPT !.wildSuit = aiChosenSuit,
                             !.currentTurn = nextTurnOf(isPlayer),
                             !.status = newStatusOf(prev, card, isPlayer)]
     ELSE [moved EXCEPT !.currentTurn = nextTurnOf(isPlayer),
                        !.status = newStatusOf(prev, card, isPlayer)]

\* The updater passed to setGameState by playCard
playCardUpdate(prev, card, isPlayer, aiChosenSuit) ==
  LET newHand        == withoutId(handOf(prev, isPlayer), card.id)
      newDiscardPile == Append(prev.discardPile, card)
      newStatus      == newStatusOf(prev, card, isPlayer)
      moved          == [withHand(prev, isPlayer, newHand)
                           EXCEPT !.discardPile = newDiscardPile]
  IN IF card.rank = "8"
     THEN IF isPlayer
          THEN [moved EXCEPT !.status = "waiting_for_suit",
                             !.currentTurn = IF isPlayer THEN "player" ELSE "ai"]
          ELSE [moved EXCEPT !.wildSuit = aiChosenSuit,
                             !.currentTurn = nextTurnOf(isPlayer),
                             !.status = newStatus]
     ELSE [moved EXCEPT !.currentTurn = nextTurnOf(isPlayer),
                        !.status = newStatus,
                        !.wildSuit = NoSuit]

\* earned: the reward of the emptied-hand branch, read from the inventory of
\* the render that created this playCard
earnedOf(isPlayer, renderInventory) ==
  IF isPlayer \/ renderInventory.p2 > 0 THEN 2 ELSE 1

\* setShowSuitPicker that opens the picker for an 8 of either actor
showSuitPickerAfterPlay_OnEveryEight(card, isPlayer, shown) ==
  IF card.rank = "8" THEN TRUE ELSE shown

\* showSuitPicker after playCard: setShowSuitPicker(true) runs in the
\* player's rank-8 branch only
showSuitPickerAfterPlay(card, isPlayer, shown) ==
  IF card.rank = "8" /\ isPlayer THEN TRUE ELSE shown

\* Stars added by the setStars call inside playCard's updater
playCardStars(prev, card, isPlayer, renderInventory) ==
  IF Len(withoutId(handOf(prev, isPlayer), card.id)) = 0
  THEN earnedOf(isPlayer, renderInventory)
  ELSE 0

(* ------------------------------- drawCard ------------------------------ *)

\* drawCard that copies the top card of the deck without popping it
drawCardUpdate_KeepsDeck(renderGs, prev, isPlayer) ==
  IF Len(renderGs.deck) = 0
  THEN [prev EXCEPT !.currentTurn = nextTurnOf(isPlayer)]
  ELSE [withHand(prev, isPlayer,
                 Append(handOf(prev, isPlayer), prev.deck[Len(prev.deck)]))
          EXCEPT !.currentTurn = nextTurnOf(isPlayer)]

\* drawCard that returns on an empty deck without passing the turn
drawCardUpdate_EmptyKeepsTurn(renderGs, prev, isPlayer) ==
  IF Len(renderGs.deck) = 0
  THEN prev
  ELSE [withHand(prev, isPlayer,
                 Append(handOf(prev, isPlayer), prev.deck[Len(prev.deck)]))
          EXCEPT !.deck = SubSeq(prev.deck, 1, Len(prev.deck) - 1),
                 !.currentTurn = nextTurnOf(isPlayer)]

\* drawCard that takes the first card of the deck (shift instead of pop)
drawCardUpdate_TakesFirst(renderGs, prev, isPlayer) ==
  IF Len(renderGs.deck) = 0
  THEN [prev EXCEPT !.currentTurn = nextTurnOf(isPlayer)]
  ELSE [withHand(prev, isPlayer, Append(handOf(prev, isPlayer), prev.deck[1]))
          EXCEPT !.deck = SubSeq(prev.deck, 2, Len(prev.deck)),
                 !.currentTurn = nextTurnOf(isPlayer)]

\* drawCard that turns the discard pile under its top card into the deck
\* when the deck is empty
drawCardUpdate_Reshuffles(renderGs, prev, isPlayer) ==
  IF Len(renderGs.deck) = 0
  THEN [prev EXCEPT !.deck = SubSeq(prev.discardPile, 1, Len(prev.discardPile) - 1),
                    !.discardPile = <<prev.discardPile[Len(prev.discardPile)]>>,
                    !.currentTurn = nextTurnOf(isPlayer)]
  ELSE [withHand(prev, isPlayer,
                 Append(handOf(prev, isPlayer), prev.deck[Len(prev.deck)]))
          EXCEPT !.deck = SubSeq(prev.deck, 1, Len(prev.deck) - 1),
                 !.currentTurn = nextTurnOf(isPlayer)]

\* A draw that leaves the turn with the actor who drew
drawCardUpdate_KeepsTurn(renderGs, prev, isPlayer) ==
  IF Len(renderGs.deck) = 0
  THEN [prev EXCEPT !.currentTurn = nextTurnOf(isPlayer)]
  ELSE [withHand(prev, isPlayer,
                 Append(handOf(prev, isPlayer), prev.deck[Len(prev.deck)]))
          EXCEPT !.deck = SubSeq(prev.deck, 1, Len(prev.deck) - 1)]

\* drawCard: the empty-deck test reads the rendered gameState, the updaters
\* read prev
drawCardUpdate(renderGs, prev, isPlayer) ==
  IF Len(renderGs.deck) = 0
  THEN [prev EXCEPT !.currentTurn = nextTurnOf(isPlayer)]
  ELSE LET newDeck   == SubSeq(prev.deck, 1, Len(prev.deck) - 1)
           drawnCard == prev.deck[Len(prev.deck)]
       IN [withHand(prev, isPlayer, Append(handOf(prev, isPlayer), drawnCard))
             EXCEPT !.deck = newDeck,
                    !.currentTurn = nextTurnOf(isPlayer)]

\* The guard of the deck's onClick without its status test
canDraw_IgnoresStatus(gs) == gs.currentTurn = "player"

\* The guard of the deck's onClick
canDraw(gs) == gs.currentTurn = "player" /\ gs.status = "playing"

(* --------------------------- handleSuitSelect -------------------------- *)

\* handleSuitSelect that hands the turn back to the player
handleSuitSelectUpdate_KeepsTurn(prev, suit) ==
  [prev EXCEPT !.wildSuit = suit, !.currentTurn = "player", !.status = "playing"]

handleSuitSelectUpdate(prev, suit) ==
  [prev EXCEPT !.wildSuit = suit, !.currentTurn = "ai", !.status = "playing"]

(* ------------------------- shop and power-ups -------------------------- *)

Prize == {"p1", "p2", "p3", "p4"}

\* An inventory bar that shows every prize
UsableItem_EveryPrize == {"p1", "p2", "p3", "p4"}

\* The power-ups of the inventory bar (prizes.filter(p => p.id !== 'p2'))
UsableItem == {"p1", "p3", "p4"}

\* prizes[..].cost
prizeCost == [p1 |-> 3, p2 |-> 5, p3 |-> 10, p4 |-> 20]

\* handleRedeem without its test
canRedeem_Always(balance, prize) == TRUE

\* handleRedeem's test with a strict comparison
canRedeem_StrictlyMore(balance, prize) == balance > prizeCost[prize]

\* handleRedeem's test
canRedeem(balance, prize) == balance >= prizeCost[prize]

\* useItem's early return without its status test
canUseItem_IgnoresStatus(renderInventory, renderGs, id) ==
  ~(renderInventory[id] <= 0)

\* useItem's early return without its inventory test
canUseItem_IgnoresInventory(renderInventory, renderGs, id) ==
  ~(renderGs.status # "playing")

\* useItem's early return
canUseItem(renderInventory, renderGs, id) ==
  ~(renderInventory[id] <= 0 \/ renderGs.status # "playing")

\* The cards popped by p1's loop, in pop order
RECURSIVE popped(_, _)
popped(deck, n) ==
  IF n = 0 \/ Len(deck) = 0 THEN <<>>
  ELSE <<deck[Len(deck)]>> \o popped(SubSeq(deck, 1, Len(deck) - 1), n - 1)

\* p1 that hands the cards to the AI and leaves them in the deck
usePostcardUpdate_KeepsDeck(prev) ==
  [prev EXCEPT !.aiHand = prev.aiHand \o popped(prev.deck, 5)]

\* p1 that puts the drawn cards in front of the AI hand
usePostcardUpdate_Prepends(prev) ==
  LET drawn == popped(prev.deck, 5)
  IN [prev EXCEPT !.deck = SubSeq(prev.deck, 1, Len(prev.deck) - Len(drawn)),
                  !.aiHand = drawn \o prev.aiHand]

\* p1's updater: the AI draws up to 5 cards
usePostcardUpdate(prev) ==
  LET drawn == popped(prev.deck, 5)
  IN [prev EXCEPT !.deck = SubSeq(prev.deck, 1, Len(prev.deck) - Len(drawn)),
                  !.aiHand = prev.aiHand \o drawn]

\* p3 that removes the last two cards of the hand (splice(-2, 2))
useSilkUpdate_RemovesLast(prev) ==
  LET n       == Len(prev.playerHand)
      newHand == SubSeq(prev.playerHand, 1, IF n > 2 THEN n - 2 ELSE 0)
      won     == Len(newHand) = 0
  IN [prev EXCEPT !.playerHand = newHand,
                  !.status = IF won THEN "player_won" ELSE prev.status]

\* p3's updater: newHand.splice(0, 2)
useSilkUpdate(prev) ==
  LET newHand == SubSeq(prev.playerHand, 3, Len(prev.playerHand))
      won     == Len(newHand) = 0
  IN [prev EXCEPT !.playerHand = newHand,
                  !.status = IF won THEN "player_won" ELSE prev.status]

\* Stars added by p3's updater
useSilkStars(prev) ==
  IF Len(SubSeq(prev.playerHand, 3, Len(prev.playerHand))) = 0 THEN 2 ELSE 0

\* p4 that ends the round without clearing the hand
useScrollUpdate_KeepsHand(prev) ==
  [prev EXCEPT !.status = "player_won"]

\* p4's updater
useScrollUpdate(prev) ==
  [prev EXCEPT !.playerHand = <<>>, !.status = "player_won"]

useItemUpdate(prev, id) ==
  IF id = "p1" THEN usePostcardUpdate(prev)
  ELSE IF id = "p3" THEN useSilkUpdate(prev)
  ELSE IF id = "p4" THEN useScrollUpdate(prev)
  ELSE prev

useItemStars(prev, id) ==
  IF id = "p3" THEN useSilkStars(prev)
  ELSE IF id = "p4" THEN 2
  ELSE 0

(* ------------------------------ AI policy ------------------------------ *)

\* The timer callback's filter and find, on the render it closes over
playableCardsOf(renderGs) ==
  filterIn(renderGs.aiHand, {c \in Range(renderGs.aiHand) : matchesTop(c, renderGs)})

nonEightOf(cards) == filterIn(cards, {c \in Range(cards) : c.rank # "8"})

\* The AI's choice without its preference for a non-8 card
aiPickOf_FirstPlayable(renderGs) ==
  playableCardsOf(renderGs)[1]

\* nonEight || playableCards[0]
aiPickOf(renderGs) ==
  LET playableCards == playableCardsOf(renderGs)
      nonEight      == nonEightOf(playableCards)
  IN IF nonEight # <<>> THEN nonEight[1] ELSE playableCards[1]

\* The condition under which the AI effect arms its timer
aiTurnCondition(gs) ==
  gs.currentTurn = "ai" /\ gs.status = "playing" /\ topDiscardOf(gs) # NoCard

\* The dependency list without aiHand
aiDepsChanged_WithoutAiHand(old, new, aiHandReplaced) ==
  \/ old.currentTurn # new.currentTurn
  \/ old.status # new.status
  \/ currentSuitOf(old) # currentSuitOf(new)
  \/ topDiscardOf(old) # topDiscardOf(new)

\* The effect's dependency list compared between two renders; aiHandReplaced
\* says that the update stored a new aiHand array.
aiDepsChanged(old, new, aiHandReplaced) ==
  \/ old.currentTurn # new.currentTurn
  \/ old.status # new.status
  \/ aiHandReplaced
  \/ old.aiHand # new.aiHand
  \/ currentSuitOf(old) # currentSuitOf(new)
  \/ topDiscardOf(old) # topDiscardOf(new)

\* An AI effect that arms its timer only when the turn passes to the AI
aiEffect_ArmsOnTurnOnly(old, new, newInventory, aiHandReplaced, pending) ==
  IF aiDepsChanged(old, new, aiHandReplaced)
  THEN IF aiTurnCondition(new) /\ ~aiTurnCondition(old)
       THEN <<[gameState |-> new, inventory |-> newInventory]>>
       ELSE <<>>
  ELSE pending

\* The AI effect after a render: unchanged dependencies keep the pending
\* timer and its closure; changed ones clear it and arm one on the new render.
aiEffect(old, new, newInventory, aiHandReplaced, pending) ==
  IF aiDepsChanged(old, new, aiHandReplaced)
  THEN IF aiTurnCondition(new)
       THEN <<[gameState |-> new, inventory |-> newInventory]>>
       ELSE <<>>
  ELSE pending

(* --------------------------- the basic variant ------------------------- *)

\* initGame of the basic variant: splice(0, n) twice, pop, and the rest
basicDealOf(fullDeck, n) ==
  [deck        |-> SubSeq(fullDeck, 2 * n + 1, Len(fullDeck) - 1),
   discardPile |-> <<fullDeck[Len(fullDeck)]>>,
   playerHand  |-> SubSeq(fullDeck, 1, n),
   aiHand      |-> SubSeq(fullDeck, n + 1, 2 * n),
   currentTurn |-> "player",
   status      |-> "playing",
   wildSuit    |-> NoSuit]

\* isCardPlayable of the basic variant
basicIsCardPlayable(card, gs) ==
  IF gs.status # "playing" \/ gs.currentTurn # "player" \/ topDiscardOf(gs) = NoCard
  THEN FALSE
  ELSE IF card.rank = "8" THEN TRUE
       ELSE card.suit = currentSuitOf(gs) \/ card.rank = topDiscardOf(gs).rank

\* The basic playCard whose AI counts the suits of the hand before the 8
\* has left it
basicPlayCardUpdate_CountsPlayedCard(prev, card, isPlayer) ==
  LET oldHand   == IF isPlayer THEN prev.playerHand ELSE prev.aiHand
      newHand   == withoutId(oldHand, card.id)
      newStatus == IF Len(newHand) = 0
                   THEN (IF isPlayer THEN "player_won" ELSE "ai_won")
                   ELSE prev.status
      sorted    == sortByCount(suitKeys(oldHand), oldHand)
      moved     == [(IF isPlayer THEN [prev EXCEPT !.playerHand = newHand]
                                 ELSE [prev EXCEPT !.aiHand = newHand])
                      EXCEPT !.discardPile = Append(prev.discardPile, card)]
  IN IF card.rank = "8"
     THEN IF isPlayer
          THEN [moved EXCEPT !.status = "waiting_for_suit", !.currentTurn = "player"]
          ELSE [moved EXCEPT !.wildSuit = IF sorted = <<>> THEN "hearts" ELSE sorted[1],
                             !.currentTurn = "player",
                             !.status = newStatus]
     ELSE [moved EXCEPT !.currentTurn = IF isPlayer THEN "ai" ELSE "player",
                        !.status = newStatus,
                        !.wildSuit = NoSuit]

\* The updater of the basic playCard: bestSuit is counted inside the updater,
\* on newHand
basicPlayCardUpdate(prev, card, isPlayer) ==
  LET newHand   == withoutId(IF isPlayer THEN prev.playerHand ELSE prev.aiHand,
                             card.id)
      newStatus == IF Len(newHand) = 0
                   THEN (IF isPlayer THEN "player_won" ELSE "ai_won")
                   ELSE prev.status
      sorted    == sortByCount(suitKeys(newHand), newHand)
      moved     == [(IF isPlayer THEN [prev EXCEPT !.playerHand = newHand]
                                 ELSE [prev EXCEPT !.aiHand = newHand])
                      EXCEPT !.discardPile = Append(prev.discardPile, card)]
  IN IF card.rank = "8"
     THEN IF isPlayer
          THEN [moved EXCEPT !.status = "waiting_for_suit", !.currentTurn = "player"]
          ELSE [moved EXCEPT !.wildSuit = IF sorted = <<>> THEN "hearts" ELSE sorted[1],
                             !.currentTurn = "player",
                             !.status = newStatus]
     ELSE [moved EXCEPT !.currentTurn = IF isPlayer THEN "ai" ELSE "player",
                        !.status = newStatus,
                        !.wildSuit = NoSuit]

\* drawCard of the basic variant
basicDrawCardUpdate(renderGs, prev, isPlayer) ==
  IF Len(renderGs.deck) = 0
  THEN [prev EXCEPT !.currentTurn = IF isPlayer THEN "ai" ELSE "player"]
  ELSE IF isPlayer
       THEN [prev EXCEPT !.deck = SubSeq(prev.deck, 1, Len(prev.deck) - 1),
                         !.playerHand = Append(prev.playerHand, prev.deck[Len(prev.deck)]),
                         !.currentTurn = "ai"]
       ELSE [prev EXCEPT !.deck = SubSeq(prev.deck, 1, Len(prev.deck) - 1),
                         !.aiHand = Append(prev.aiHand, prev.deck[Len(prev.deck)]),
                         !.currentTurn = "player"]

\* handleSuitSelect of the basic variant
basicHandleSuitSelectUpdate(prev, suit) ==
  [prev EXCEPT !.wildSuit = suit, !.currentTurn = "ai", !.status = "playing"]

\* The filter of the basic variant's timer callback
basicPlayableCardsOf(renderGs) ==
  filterIn(renderGs.aiHand,
           {c \in Range(renderGs.aiHand) :
              \/ c.rank = "8"
              \/ c.suit = currentSuitOf(renderGs)
              \/ c.rank = topDiscardOf(renderGs).rank})

\* nonEight || playableCards[0] in the basic variant
basicAiPickOf(renderGs) ==
  LET playableCards == basicPlayableCardsOf(renderGs)
      nonEight      == filterIn(playableCards,
                                {c \in Range(playableCards) : c.rank # "8"})
  IN IF nonEight # <<>> THEN nonEight[1] ELSE playableCards[1]

\* The AI effect of the basic variant after a render; its callback closes
\* over the rendered gameState
basicEffect(old, new, aiHandReplaced, pending) ==
  IF \/ old.currentTurn # new.currentTurn
     \/ old.status # new.status
     \/ aiHandReplaced
     \/ old.aiHand # new.aiHand
     \/ currentSuitOf(old) # currentSuitOf(new)
     \/ topDiscardOf(old) # topDiscardOf(new)
  THEN IF new.currentTurn = "ai" /\ new.status = "playing" /\ topDiscardOf(new) # NoCard
       THEN <<new>>
       ELSE <<>>
  ELSE pending

\* The basic variant before its mount effect has run
ConstructedBasic ==
  [gameState |-> ConstructedGame, showSuitPicker |-> FALSE, timer |-> <<>>,
   tracked |-> TRUE]

\* The basic variant is followed until a power-up, which it does not have,
\* is used in the shop variant; the next initGame resumes it.
UntrackedBasic == [ConstructedBasic EXCEPT !.tracked = FALSE]

\* initGame in the basic variant, on the deal of the same shuffled deck
basicAfterInitGame(b, new) ==
  [gameState |-> new, showSuitPicker |-> FALSE,
   timer |-> basicEffect(b.gameState, new, TRUE, b.timer), tracked |-> TRUE]

\* The same click on a card, in the basic variant
basicAfterClickCard(b, card) ==
  IF b.tracked /\ card \in Range(b.gameState.playerHand)
       /\ basicIsCardPlayable(card, b.gameState)
  THEN [b EXCEPT !.gameState = basicPlayCardUpdate(b.gameState, card, TRUE),
                 !.showSuitPicker = IF card.rank = "8" THEN TRUE ELSE b.showSuitPicker,
                 !.timer = basicEffect(b.gameState,
                                       basicPlayCardUpdate(b.gameState, card, TRUE),
                                       FALSE, b.timer)]
  ELSE b

\* The same click on the deck, in the basic variant
basicAfterClickDeck(b) ==
  IF b.tracked /\ b.gameState.currentTurn = "player" /\ b.gameState.status = "playing"
  THEN [b EXCEPT !.gameState = basicDrawCardUpdate(b.gameState, b.gameState, TRUE),
                 !.timer = basicEffect(b.gameState,
                                       basicDrawCardUpdate(b.gameState, b.gameState, TRUE),
                                       FALSE, b.timer)]
  ELSE b

\* The same click on a suit, if the basic variant shows its picker
basicAfterSuitSelect(b, suit) ==
  IF b.tracked /\ b.showSuitPicker
  THEN [b EXCEPT !.gameState = basicHandleSuitSelectUpdate(b.gameState, suit),
                 !.showSuitPicker = FALSE,
                 !.timer = basicEffect(b.gameState,
                                       basicHandleSuitSelectUpdate(b.gameState, suit),
                                       FALSE, b.timer)]
  ELSE b

(* -------------------------------- state -------------------------------- *)

VARIABLES
  gameState,       \* useState<GameState>
  stars,           \* useState(0)
  inventory,       \* useState<Record<string, number>>
  showHome,        \* useState(true)
  showSuitPicker,  \* useState(false)
  basic,           \* the basic variant (App.tsx), given the same inputs
  timer,           \* the pending AI timeout: <<>> or <<its closure>>
  steps,           \* number of handler calls left to explore
  ev               \* the last handler call: its arguments and the state before it

vars == <<gameState, stars, inventory, showHome, showSuitPicker, basic, timer,
          steps, ev>>

\* The balances a session may hold when the home screen is shown: stars and
\* inventory outlive the rounds, and initGame replaces the round wholesale.
StartSessions ==
  {[stars |-> 10, inventory |-> ConstructedInventory],
   [stars |-> 0, inventory |-> [p1 |-> 1, p2 |-> 0, p3 |-> 1, p4 |-> 1]],
   [stars |-> 0, inventory |-> [p1 |-> 0, p2 |-> 1, p3 |-> 0, p4 |-> 0]]}

\* The win rewards granted so far in the current round: those before the last
\* call, and the one of the last call if it raised stars (only a win does).
RoundRewards == ev.rewards + (IF stars > ev.preStars THEN 1 ELSE 0)

\* The last call dealt a round or passed the turn to the AI: an AI turn, if
\* any, starts in this state.
TurnStarted ==
  \/ ev.op = "initGame"
  \/ gameState.currentTurn = "ai" /\ ev.pre.currentTurn # "ai"

\* The AI's plays and draws applied since the turn last passed to the AI.
AIMovesInTurn ==
  IF TurnStarted THEN 0
  ELSE ev.aiMoves
         + (IF ev.accepted /\ ~ev.isPlayer /\ ev.op \in {"playCard", "drawCard"}
            THEN 1 ELSE 0)

\* A power-up has been used on the AI's turn since the turn last passed to
\* the AI.
ItemsInTurn ==
  IF TurnStarted THEN FALSE
  ELSE \/ ev.aiItems
       \/ /\ ev.accepted
          /\ ev.op = "useItem"
          /\ ev.pre.currentTurn = "ai"
          /\ ev.pre.status = "playing"

Event(op, isPlayer, card, suit, item, accepted) ==
  [op |-> op, isPlayer |-> isPlayer, card |-> card, suit |-> suit, item |-> item,
   accepted |-> accepted, pre |-> gameState, preStars |-> stars,
   preInventory |-> inventory,
   rewards |-> IF op = "initGame" THEN 0 ELSE RoundRewards,
   aiMoves |-> AIMovesInTurn, aiItems |-> ItemsInTurn]

\* Every accepted handler call is recorded and counted.
Record(op, isPlayer, card, suit, item, accepted) ==
  /\ steps > 0
  /\ steps' = steps - 1
  /\ ev' = Event(op, isPlayer, card, suit, item, accepted)

\* A rejected handler call changes nothing; only the attempt is recorded.
Reject(op, isPlayer, card, item) ==
  /\ ev' = Event(op, isPlayer, card, NoSuit, item, FALSE)
  /\ UNCHANGED <<gameState, stars, inventory, showHome, showSuitPicker, timer, steps>>

InitWith(budget) ==
  /\ gameState = ConstructedGame
  /\ \E session \in StartSessions :
       /\ stars = session.stars
       /\ inventory = session.inventory
  /\ showHome = TRUE
  /\ showSuitPicker = FALSE
  /\ basic = ConstructedBasic
  /\ timer = <<>>
  /\ steps = budget
  /\ ev = [op |-> "construct", isPlayer |-> FALSE, card |-> NoCard, suit |-> NoSuit,
           item |-> "none", accepted |-> TRUE, pre |-> ConstructedGame,
           preStars |-> stars, preInventory |-> inventory, rewards |-> 0,
           aiMoves |-> 0, aiItems |-> FALSE]

\* The state after construction, with the step budget of Spec
Init == InitWith(MaxSteps)

(* ------------------------------- actions ------------------------------- *)

\* initGame's state updates, followed by the AI effect of the next render
DealRound(new, basicNew) ==
  /\ gameState' = new
  /\ showSuitPicker' = FALSE
  /\ basic' = basicAfterInitGame(basic, basicNew)
  /\ showHome' = FALSE
  /\ timer' = aiEffect(gameState, new, inventory, TRUE, timer)
  /\ Record("initGame", FALSE, NoCard, NoSuit, "none", TRUE)
  /\ UNCHANGED <<stars, inventory>>

Deal(seed) ==
  DealRound(initGame(createDeck(seed)), basicDealOf(createDeck(seed), HandSize))

\* The home screen's start button: setShowHome(false), whose effect calls initGame
StartGame ==
  /\ showHome
  /\ \E seed \in ShuffleSeeds : Deal(seed)

\* The game-over modal's button
PlayAgain ==
  /\ ~showHome
  /\ gameState.status \in {"player_won", "ai_won"}
  /\ \E seed \in ShuffleSeeds : Deal(seed)

\* The header's button: setShowHome(true)
GoHome ==
  /\ ~showHome
  /\ showHome' = TRUE
  /\ Record("goHome", FALSE, NoCard, NoSuit, "none", TRUE)
  /\ UNCHANGED <<gameState, stars, inventory, showSuitPicker, basic, timer>>

\* A click on a card of the player's hand: Card calls onClick only if isPlayable
ClickCard ==
  /\ ~showHome
  /\ \E i \in 1..Len(gameState.playerHand) :
       LET card == gameState.playerHand[i]
       IN /\ basic' = basicAfterClickCard(basic, card)
          /\ IF isCardPlayable(card, gameState)
             THEN LET new == playCardUpdate(gameState, card, TRUE,
                                            aiChosenSuitOf(gameState, card, TRUE))
                  IN /\ gameState' = new
                     /\ stars' = stars + playCardStars(gameState, card, TRUE, inventory)
                     /\ showSuitPicker' = showSuitPickerAfterPlay(card, TRUE, showSuitPicker)
                     /\ timer' = aiEffect(gameState, new, inventory, FALSE, timer)
                     /\ Record("playCard", TRUE, card, NoSuit, "none", TRUE)
                     /\ UNCHANGED <<inventory, showHome>>
             ELSE Reject("playCard", TRUE, card, "none")

\* A click on the deck
ClickDeck ==
  /\ ~showHome
  /\ basic' = basicAfterClickDeck(basic)
  /\ IF canDraw(gameState)
     THEN LET new == drawCardUpdate(gameState, gameState, TRUE)
          IN /\ gameState' = new
             /\ timer' = aiEffect(gameState, new, inventory, FALSE, timer)
             /\ Record("drawCard", TRUE, NoCard, NoSuit, "none", TRUE)
             /\ UNCHANGED <<stars, inventory, showHome, showSuitPicker>>
     ELSE Reject("drawCard", TRUE, NoCard, "none")

\* A click on a suit of the suit picker, which is rendered while showSuitPicker
SelectSuit ==
  /\ ~showHome
  /\ showSuitPicker
  /\ \E suit \in Suit :
       LET new == handleSuitSelectUpdate(gameState, suit)
       IN /\ gameState' = new
          /\ showSuitPicker' = FALSE
          /\ basic' = basicAfterSuitSelect(basic, suit)
          /\ timer' = aiEffect(gameState, new, inventory, FALSE, timer)
          /\ Record("chooseSuit", TRUE, NoCard, suit, "none", TRUE)
          /\ UNCHANGED <<stars, inventory, showHome>>

\* The timeout of the basic variant, due at the same time
BasicTimerCallback ==
  IF basic.tracked /\ basic.timer # <<>>
  THEN \E renderGs \in {basic.timer[1]} :
         IF Len(basicPlayableCardsOf(renderGs)) > 0
         THEN \E card \in {basicAiPickOf(renderGs)} :
              \E new \in {basicPlayCardUpdate(basic.gameState, card, FALSE)} :
                basic' = [basic EXCEPT
                            !.gameState = new,
                            !.timer = basicEffect(basic.gameState, new, TRUE, <<>>)]
         ELSE \E new \in {basicDrawCardUpdate(renderGs, basic.gameState, FALSE)} :
                basic' = [basic EXCEPT
                            !.gameState = new,
                            !.timer = basicEffect(basic.gameState, new,
                                                  Len(renderGs.deck) # 0, <<>>)]
  ELSE basic' = basic

\* The callback of the render that armed the timer.  The card found and the
\* state computed by the updater are values, bound once.
AITimerCallback ==
  /\ timer # <<>>
  /\ \E renderGs \in {timer[1].gameState}, renderInventory \in {timer[1].inventory} :
       IF Len(playableCardsOf(renderGs)) > 0
       THEN \E card \in {aiPickOf(renderGs)} :
              \E aiChosenSuit \in {aiChosenSuitOf(renderGs, card, FALSE)} :
              \E new \in {playCardUpdate(gameState, card, FALSE, aiChosenSuit)} :
                /\ gameState' = new
                /\ stars' = stars + playCardStars(gameState, card, FALSE, renderInventory)
                /\ showSuitPicker' = showSuitPickerAfterPlay(card, FALSE, showSuitPicker)
                /\ timer' = aiEffect(gameState, new, inventory, TRUE, <<>>)
                /\ ev' = Event("playCard", FALSE, card, NoSuit, "none", TRUE)
       ELSE \E new \in {drawCardUpdate(renderGs, gameState, FALSE)} :
              /\ gameState' = new
              /\ stars' = stars
              /\ showSuitPicker' = showSuitPicker
              /\ timer' = aiEffect(gameState, new, inventory,
                                   Len(renderGs.deck) # 0, <<>>)
              /\ ev' = Event("drawCard", FALSE, NoCard, NoSuit, "none", TRUE)
  /\ BasicTimerCallback
  /\ UNCHANGED <<inventory, showHome>>

\* The timeout fires: one of the calls explored
AITimerFire ==
  /\ steps > 0
  /\ steps' = steps - 1
  /\ AITimerCallback

\* A click on a prize of the shop, which the footer opens over the game at
\* any time; opening and closing it changes no state the game reads.
Redeem ==
  /\ ~showHome
  /\ basic' = basic
  /\ \E prize \in Prize :
       IF canRedeem(stars, prize)
       THEN /\ stars' = stars - prizeCost[prize]
            /\ inventory' = [inventory EXCEPT ![prize] = inventory[prize] + 1]
            /\ Record("redeem", TRUE, NoCard, NoSuit, prize, TRUE)
            /\ UNCHANGED <<gameState, showHome, showSuitPicker, timer>>
       ELSE Reject("redeem", TRUE, NoCard, prize)

\* A click on a power-up of the inventory bar
UseItem ==
  /\ ~showHome
  /\ \E id \in UsableItem :
       IF canUseItem(inventory, gameState, id)
       THEN LET new == useItemUpdate(gameState, id)
            IN /\ inventory' = [inventory EXCEPT ![id] = inventory[id] - 1]
               /\ gameState' = new
               /\ stars' = stars + useItemStars(gameState, id)
               /\ timer' = aiEffect(gameState, new, inventory', id = "p1", timer)
               /\ basic' = UntrackedBasic
               /\ Record("useItem", TRUE, NoCard, NoSuit, id, TRUE)
               /\ UNCHANGED <<showHome, showSuitPicker>>
       ELSE /\ basic' = basic
            /\ Reject("useItem", TRUE, NoCard, id)

Next ==
  \/ StartGame
  \/ PlayAgain
  \/ GoHome
  \/ ClickCard
  \/ ClickDeck
  \/ SelectSuit
  \/ AITimerFire
  \/ Redeem
  \/ UseItem

Spec == Init /\ [][Next]_vars

(* ---------------------- the deal on the 52-card deck ------------------- *)

StandardInit == InitWith(StandardSteps)

StandardDeal(seed) ==
  DealRound(initStandardGame(createStandardDeck(seed)),
            basicDealOf(createStandardDeck(seed), SourceHandSize))

\* The home screen's start button, dealing from the 52 cards
StandardStartGame ==
  /\ showHome
  /\ \E seed \in shuffleSeedsOf(StandardDeck) : StandardDeal(seed)

\* The game-over modal's button, dealing from the 52 cards
StandardPlayAgain ==
  /\ ~showHome
  /\ gameState.status \in {"player_won", "ai_won"}
  /\ \E seed \in shuffleSeedsOf(StandardDeck) : StandardDeal(seed)

StandardNext ==
  \/ StandardStartGame
  \/ StandardPlayAgain
  \/ GoHome
  \/ ClickCard
  \/ ClickDeck
  \/ SelectSuit
  \/ AITimerFire
  \/ Redeem
  \/ UseItem

\* The program with its rounds dealt from the 52 cards in hands of 8
StandardSpec == StandardInit /\ [][StandardNext]_vars

(* ---------------------- the deal on the short deck --------------------- *)

\* The session that holds the power-ups which empty the deck and the hand
ShortInit == InitWith(ShortSteps) /\ inventory.p1 > 0 /\ inventory.p3 > 0

ShortDeal(seed) ==
  DealRound(initGame(createShortDeck(seed)),
            basicDealOf(createShortDeck(seed), HandSize))

\* The home screen's start button, dealing from the short deck
ShortStartGame ==
  /\ showHome
  /\ \E seed \in ShortShuffleSeeds : ShortDeal(seed)

\* The game-over modal's button, dealing from the short deck
ShortPlayAgain ==
  /\ ~showHome
  /\ gameState.status \in {"player_won", "ai_won"}
  /\ \E seed \in ShortShuffleSeeds : ShortDeal(seed)

ShortNext ==
  \/ ShortStartGame
  \/ ShortPlayAgain
  \/ GoHome
  \/ ClickCard
  \/ ClickDeck
  \/ SelectSuit
  \/ AITimerFire
  \/ Redeem
  \/ UseItem

\* The program with its rounds dealt from the short deck
ShortSpec == ShortInit /\ [][ShortNext]_vars

(* ----------- the AI's timer under fairness, on the short deck ----------- *)

\* The session that owns a postcard and a silk, as in ShortInit
LiveInit ==
  /\ InitWith(LiveSteps)
  /\ inventory.p1 > 0
  /\ inventory.p3 > 0

\* The timeout fires, however many calls of the user are left to explore
AITimerDue ==
  /\ steps' = steps
  /\ AITimerCallback

LiveNext ==
  \/ ShortStartGame
  \/ ShortPlayAgain
  \/ GoHome
  \/ ClickCard
  \/ ClickDeck
  \/ SelectSuit
  \/ AITimerDue
  \/ Redeem
  \/ UseItem

\* setTimeout runs its callback unless the effect's cleanup clears it: a
\* timer that stays pending fires.
LiveSpec == LiveInit /\ [][LiveNext]_vars /\ WF_vars(AITimerDue)

(* ------------------------- vocabulary of claims ------------------------ *)

allCards(gs) == gs.deck \o gs.discardPile \o gs.playerHand \o gs.aiHand

distinctIds(cards) ==
  \A i, j \in 1..Len(cards) : i # j => cards[i].id # cards[j].id

\* A round has been dealt: the discard pile is seeded and never emptied.
Dealt == Len(gameState.discardPile) > 0

Terminal(gs) == gs.status \in {"player_won", "ai_won"}

Accepted(op) == ev.op = op /\ ev.accepted

AcceptedItem(id) == Accepted("useItem") /\ ev.item = id

\* The last call was a play of ev.card by the player (TRUE) or the AI (FALSE).
Played(isPlayer) == Accepted("playCard") /\ ev.isPlayer = isPlayer

Drew(isPlayer) == Accepted("drawCard") /\ ev.isPlayer = isPlayer

Min(a, b) == IF a < b THEN a ELSE b

\* The last call was useItem(id) with the item in stock and status playing.
UsableCall(id) ==
  /\ ev.op = "useItem"
  /\ ev.item = id
  /\ ev.preInventory[id] >= 1
  /\ ev.pre.status = "playing"

(* --------------------------------- C1 ---------------------------------- *)

C2_WinDetection ==
  \A isPlayer \in BOOLEAN :
    (Played(isPlayer) /\ Len(handOf(gameState, isPlayer)) = 0)
      => gameState.status = wonStatus(isPlayer)

(* --------------------------------- C3 ---------------------------------- *)

\* C3: once status is player_won or ai_won, no call other than initGame
\* changes any field of the game state.
C3_TerminalAbsorbing ==
  (Terminal(ev.pre) /\ ~Accepted("initGame")) => gameState = ev.pre

\* A power-up was tried, and rejected, on a finished round.
C3_Witness ==
  /\ Terminal(ev.pre)
  /\ ev.op = "useItem"
  /\ ~ev.accepted
  /\ ev.preInventory[ev.item] > 0

(* --------------------------------- C4 ---------------------------------- *)

\* C4: whenever a play moves a card from a hand to the top of the discard
\* pile, status was playing, it was that actor's turn, the card was in that
\* actor's hand, and the card was an 8 or matched the current suit (wildSuit
\* if set, else the top discard's suit) or the top discard's rank.
C4_OnlyLegalPlays ==
  \A isPlayer \in BOOLEAN :
    Played(isPlayer) =>
      /\ ev.pre.status = "playing"
      /\ ev.pre.currentTurn = (IF isPlayer THEN "player" ELSE "ai")
      /\ ev.card \in Range(handOf(ev.pre, isPlayer))
      /\ topDiscardOf(gameState) = ev.card
      /\ \/ ev.card.rank = "8"
         \/ ev.card.suit = (IF ev.pre.wildSuit # NoSuit THEN ev.pre.wildSuit
                            ELSE ev.pre.discardPile[Len(ev.pre.discardPile)].suit)
         \/ ev.card.rank = ev.pre.discardPile[Len(ev.pre.discardPile)].rank

\* The AI has played a non-8 card on a wild suit that differs from the top
\* discard's own suit.
C4_Witness ==
  /\ Played(FALSE)
  /\ ev.card.rank # "8"
  /\ ev.pre.wildSuit # NoSuit
  /\ ev.pre.wildSuit # topDiscardOf(ev.pre).suit
  /\ ev.card.suit = ev.pre.wildSuit

(* --------------------------------- C5 ---------------------------------- *)

\* C5: after every accepted play of a non-8 card and every accepted draw,
\* with or without cards in the deck, currentTurn is the other actor.
C5_TurnAlternation ==
  \A isPlayer \in BOOLEAN :
    ((Played(isPlayer) /\ ev.card.rank # "8") \/ Drew(isPlayer))
      => gameState.currentTurn = (IF isPlayer THEN "ai" ELSE "player")

\* The player has drawn from an empty deck.
C5_Witness ==
  /\ Drew(TRUE)
  /\ Len(ev.pre.deck) = 0
  /\ gameState.currentTurn = "ai"

(* --------------------------------- C6 ---------------------------------- *)

\* C6: a player's play of an 8 yields waiting_for_suit with the turn still
\* the player's, the 8 moved from playerHand to the top of discardPile, and
\* deck, aiHand and wildSuit unchanged.
C6_PlayerEight ==
  (Played(TRUE) /\ ev.card.rank = "8") =>
    /\ ev.pre.status = "playing"
    /\ ev.pre.currentTurn = "player"
    /\ gameState.status = "waiting_for_suit"
    /\ gameState.currentTurn = "player"
    /\ ev.card \notin Range(gameState.playerHand)
    /\ Len(gameState.playerHand) = Len(ev.pre.playerHand) - 1
    /\ gameState.discardPile = Append(ev.pre.discardPile, ev.card)
    /\ gameState.deck = ev.pre.deck
    /\ gameState.aiHand = ev.pre.aiHand
    /\ gameState.wildSuit = ev.pre.wildSuit

\* The player has played an 8 that was not the last card of the hand.
C6_Witness ==
  /\ Played(TRUE)
  /\ ev.card.rank = "8"
  /\ Len(gameState.playerHand) > 0

(* --------------------------------- C7 ---------------------------------- *)

\* C7: ChooseSuit(s) in waiting_for_suit yields wildSuit = s, status playing
\* and currentTurn ai, and leaves deck, discardPile and both hands unchanged.
C7_ChooseSuit ==
  Accepted("chooseSuit") =>
    /\ ev.pre.status = "waiting_for_suit"
    /\ gameState.wildSuit = ev.suit
    /\ gameState.status = "playing"
    /\ gameState.currentTurn = "ai"
    /\ gameState.deck = ev.pre.deck
    /\ gameState.discardPile = ev.pre.discardPile
    /\ gameState.playerHand = ev.pre.playerHand
    /\ gameState.aiHand = ev.pre.aiHand

\* A suit other than the played 8's own suit has been chosen.
C7_Witness ==
  /\ Accepted("chooseSuit")
  /\ ev.suit # topDiscardOf(gameState).suit
  /\ gameState.wildSuit = ev.suit

(* --------------------------------- C8 ---------------------------------- *)

\* C8: waiting_for_suit is entered only by a player's play of an 8, and
\* while it lasts only ChooseSuit and initGame change the game state.
C8_WaitingForSuit ==
  /\ (gameState.status = "waiting_for_suit" /\ ev.pre.status # "waiting_for_suit")
       => (Played(TRUE) /\ ev.card.rank = "8")
  /\ (ev.pre.status = "waiting_for_suit" /\ gameState # ev.pre)
       => (Accepted("chooseSuit") \/ Accepted("initGame"))

\* A power-up the player owns was tried, and rejected, while a suit was awaited.
C8_Witness ==
  /\ ev.pre.status = "waiting_for_suit"
  /\ ev.op = "useItem"
  /\ ~ev.accepted
  /\ ev.preInventory[ev.item] > 0
  /\ gameState.status = "waiting_for_suit"

(* --------------------------------- C9 ---------------------------------- *)

\* C9 as stated: a play of a non-8 card leaves wildSuit unset, and wildSuit
\* is set only while the top discard is an 8 whose own suit has been
\* resolved; the 8 on top is unresolved exactly while its suit is awaited.
C9_WildSuitLifecycle ==
  /\ \A isPlayer \in BOOLEAN :
       (Played(isPlayer) /\ ev.card.rank # "8") => gameState.wildSuit = NoSuit
  /\ gameState.wildSuit # NoSuit
       => /\ topDiscardOf(gameState).rank = "8"
          /\ gameState.status # "waiting_for_suit"

\* C9, amended: a play of a non-8 card leaves wildSuit unset; wildSuit is set
\* only while the top discard is an 8; it takes a new value only when the AI
\* plays an 8 or ChooseSuit runs; and while the suit of a player's 8 is
\* awaited it still holds what it held before that 8.
C9_WildSuitResolved ==
  /\ \A isPlayer \in BOOLEAN :
       (Played(isPlayer) /\ ev.card.rank # "8") => gameState.wildSuit = NoSuit
  /\ gameState.wildSuit # NoSuit => topDiscardOf(gameState).rank = "8"
  /\ (gameState.wildSuit # NoSuit /\ gameState.wildSuit # ev.pre.wildSuit)
       => ((Played(FALSE) /\ ev.card.rank = "8") \/ Accepted("chooseSuit"))
  /\ (Played(TRUE) /\ ev.card.rank = "8") => gameState.wildSuit = ev.pre.wildSuit

\* A non-8 card has been played on a resolved 8 and cleared the wild suit.
C9_Witness ==
  /\ Accepted("playCard")
  /\ ev.card.rank # "8"
  /\ ev.pre.wildSuit # NoSuit
  /\ gameState.wildSuit = NoSuit

(* --------------------------------- C10 --------------------------------- *)

\* C10: an AI play that empties the AI hand while the player owns a p2 adds
\* exactly 2 stars, whenever the p2 was redeemed, and every player win adds
\* exactly 2 stars.
C10_TwoStarsUnderP2 ==
  /\ (Played(FALSE) /\ Len(gameState.aiHand) = 0 /\ ev.preInventory.p2 >= 1)
       => stars = ev.preStars + 2
  /\ (gameState.status = "player_won" /\ ev.pre.status # "player_won")
       => stars = ev.preStars + 2

(* --------------------------------- C11 --------------------------------- *)

\* C11: a play that puts the round into player_won adds exactly 2 stars; a
\* play that puts it into ai_won adds exactly 1 star when the player owns no
\* p2 and exactly 2 when the player owns at least one.
C11_WinReward ==
  /\ (Played(TRUE) /\ gameState.status = "player_won") => stars = ev.preStars + 2
  /\ (Played(FALSE) /\ gameState.status = "ai_won")
       => stars = ev.preStars + (IF ev.preInventory.p2 = 0 THEN 1 ELSE 2)

(* --------------------------------- C12 --------------------------------- *)

\* C12: between two consecutive initGame calls the win reward is granted at
\* most once, and only by a call that leaves status player_won or ai_won.
C12_RewardOncePerRound ==
  /\ RoundRewards <= 1
  /\ stars > ev.preStars => Terminal(gameState)

(* --------------------------------- C13 --------------------------------- *)

\* C13: p4 used with a p4 in stock while status is playing, on either
\* actor's turn and with a non-empty player hand, is accepted and yields an
\* empty playerHand, status player_won, 2 more stars and one p4 less, with
\* deck, discardPile, aiHand, currentTurn and wildSuit unchanged.
C13_ScrollWins ==
  /\ AcceptedItem("p4") => UsableCall("p4")
  /\ (UsableCall("p4") /\ Len(ev.pre.playerHand) > 0) =>
       /\ ev.accepted
       /\ gameState.playerHand = <<>>
       /\ gameState.status = "player_won"
       /\ stars = ev.preStars + 2
       /\ inventory = [ev.preInventory EXCEPT !.p4 = ev.preInventory.p4 - 1]
       /\ gameState.deck = ev.pre.deck
       /\ gameState.discardPile = ev.pre.discardPile
       /\ gameState.aiHand = ev.pre.aiHand
       /\ gameState.currentTurn = ev.pre.currentTurn
       /\ gameState.wildSuit = ev.pre.wildSuit

\* p4 has been used on the AI's turn, on a resolved 8, with cards in hand.
C13_Witness ==
  /\ AcceptedItem("p4")
  /\ ev.pre.currentTurn = "ai"
  /\ ev.pre.wildSuit # NoSuit
  /\ Len(ev.pre.playerHand) > 1
  /\ gameState.status = "player_won"

(* --------------------------------- C14 --------------------------------- *)

\* C14: p3 used with a p3 in stock while status is playing is accepted,
\* removes the first min(2, |playerHand|) cards of playerHand whether or not
\* they are legal plays, and takes one p3; if the hand is then empty status
\* becomes player_won and stars grow by 2, else status and stars are
\* unchanged; currentTurn, wildSuit, deck and aiHand are unchanged.
C14_SilkRemovesTwo ==
  /\ AcceptedItem("p3") => UsableCall("p3")
  /\ UsableCall("p3") =>
       LET n == Min(2, Len(ev.pre.playerHand))
       IN /\ ev.accepted
          /\ gameState.playerHand =
               SubSeq(ev.pre.playerHand, n + 1, Len(ev.pre.playerHand))
          /\ inventory = [ev.preInventory EXCEPT !.p3 = ev.preInventory.p3 - 1]
          /\ IF Len(gameState.playerHand) = 0
             THEN gameState.status = "player_won" /\ stars = ev.preStars + 2
             ELSE gameState.status = ev.pre.status /\ stars = ev.preStars
          /\ gameState.currentTurn = ev.pre.currentTurn
          /\ gameState.wildSuit = ev.pre.wildSuit
          /\ gameState.deck = ev.pre.deck
          /\ gameState.aiHand = ev.pre.aiHand

\* p3 has removed two cards that were not legal plays and left a third.
C14_Witness ==
  /\ AcceptedItem("p3")
  /\ Len(ev.pre.playerHand) >= 3
  /\ ~matchesTop(ev.pre.playerHand[1], ev.pre)
  /\ ~matchesTop(ev.pre.playerHand[2], ev.pre)
  /\ Len(gameState.playerHand) = Len(ev.pre.playerHand) - 2
  /\ gameState.status = "playing"

(* --------------------------------- C15 --------------------------------- *)

\* C15: p1 used with a p1 in stock while status is playing is accepted,
\* moves the min(5, |deck|) top cards of the deck, top first, to the end of
\* aiHand, and takes one p1; currentTurn, status, wildSuit, discardPile,
\* playerHand and stars are unchanged.
C15_PostcardDraws ==
  /\ AcceptedItem("p1") => UsableCall("p1")
  /\ UsableCall("p1") =>
       LET n    == Min(5, Len(ev.pre.deck))
           rest == Len(ev.pre.deck) - n
       IN /\ ev.accepted
          /\ gameState.deck = SubSeq(ev.pre.deck, 1, rest)
          /\ Len(gameState.aiHand) = Len(ev.pre.aiHand) + n
          /\ SubSeq(gameState.aiHand, 1, Len(ev.pre.aiHand)) = ev.pre.aiHand
          /\ \A k \in 1..n :
               gameState.aiHand[Len(ev.pre.aiHand) + k]
                 = ev.pre.deck[Len(ev.pre.deck) + 1 - k]
          /\ inventory = [ev.preInventory EXCEPT !.p1 = ev.preInventory.p1 - 1]
          /\ gameState.currentTurn = ev.pre.currentTurn
          /\ gameState.status = ev.pre.status
          /\ gameState.wildSuit = ev.pre.wildSuit
          /\ gameState.discardPile = ev.pre.discardPile
          /\ gameState.playerHand = ev.pre.playerHand
          /\ stars = ev.preStars

\* p1 has been used on a deck of fewer than 5 cards and has emptied it.
C15_Witness ==
  /\ AcceptedItem("p1")
  /\ Len(ev.pre.deck) \in 1..4
  /\ Len(gameState.deck) = 0
  /\ Len(gameState.aiHand) = Len(ev.pre.aiHand) + Len(ev.pre.deck)

(* --------------------------------- C16 --------------------------------- *)

\* C16: useItem(id), for id among p1, p3 and p4, with no id in stock or with
\* a status other than playing, changes nothing: inventory, stars and every
\* field of the game state are as before.
C16_RejectedUse ==
  (ev.op = "useItem" /\ (ev.preInventory[ev.item] = 0 \/ ev.pre.status # "playing"))
    => /\ ~ev.accepted
       /\ inventory = ev.preInventory
       /\ stars = ev.preStars
       /\ gameState = ev.pre

\* A power-up out of stock was tried, and rejected, during play.
C16_Witness ==
  /\ ev.op = "useItem"
  /\ ev.preInventory[ev.item] = 0
  /\ ev.pre.status = "playing"
  /\ Dealt
  /\ ~ev.accepted

(* --------------------------------- C17 --------------------------------- *)

\* C17: redeem(prize) with stars >= prize.cost takes exactly prize.cost stars
\* and adds exactly one to the inventory count of that prize; with
\* stars < prize.cost it changes neither; the game state is unchanged in both
\* cases, whatever the status.
C17_Redemption ==
  ev.op = "redeem" =>
    /\ gameState = ev.pre
    /\ IF ev.preStars >= prizeCost[ev.item]
       THEN /\ ev.accepted
            /\ stars = ev.preStars - prizeCost[ev.item]
            /\ inventory = [ev.preInventory EXCEPT
                              ![ev.item] = ev.preInventory[ev.item] + 1]
       ELSE /\ ~ev.accepted
            /\ stars = ev.preStars
            /\ inventory = ev.preInventory

\* A prize has been redeemed with exactly its cost in stars, outside play.
C17_Witness ==
  /\ Accepted("redeem")
  /\ ev.preStars = prizeCost[ev.item]
  /\ stars = 0
  /\ ev.pre.status # "playing"
  /\ inventory[ev.item] = 1

(* --------------------------------- C18 --------------------------------- *)

\* C18: initGame, from whatever state it is called, leaves 8 cards in
\* playerHand, 8 in aiHand, exactly 1 in discardPile and 35 in deck, with
\* currentTurn player, status playing and wildSuit unset, and leaves stars
\* and inventory unchanged.
C18_FreshRound ==
  Accepted("initGame") =>
    /\ Len(gameState.playerHand) = 8
    /\ Len(gameState.aiHand) = 8
    /\ Len(gameState.discardPile) = 1
    /\ Len(gameState.deck) = 35
    /\ gameState.currentTurn = "player"
    /\ gameState.status = "playing"
    /\ gameState.wildSuit = NoSuit
    /\ stars = ev.preStars
    /\ inventory = ev.preInventory

\* initGame has replaced a finished round in which stars had been won.
C18_Witness ==
  /\ Accepted("initGame")
  /\ Terminal(ev.pre)
  /\ Len(ev.pre.discardPile) > 1
  /\ ev.pre.wildSuit # NoSuit
  /\ stars > 0
  /\ Len(gameState.deck) = 35

(* --------------------------------- C19 --------------------------------- *)

\* The last call was a move of the AI, applied by its timer.
AIMoved == (Played(FALSE) \/ Drew(FALSE))

\* While a move is pending it is the AI's turn in a round being played, and
\* the move applied is the one the policy computes from the aiHand, top
\* discard and current suit of the state it is applied to.
NoStaleMove ==
  /\ timer # <<>> => (gameState.currentTurn = "ai" /\ gameState.status = "playing")
  /\ AIMoved => (ev.pre.currentTurn = "ai" /\ ev.pre.status = "playing")
  /\ Played(FALSE) => (playableCardsOf(ev.pre) # <<>> /\ ev.card = aiPickOf(ev.pre))
  /\ Drew(FALSE) => playableCardsOf(ev.pre) = <<>>

\* The last call was an initGame, a power-up use or a change of status.
Intervened ==
  \/ Accepted("initGame")
  \/ Accepted("useItem")
  \/ gameState.status # ev.pre.status

\* C19 as stated: a scheduled AI move is applied only if currentTurn = ai and
\* status = playing held from its scheduling to its firing, it is computed
\* from the state it is applied to, and any initGame, power-up use or status
\* change cancels the pending move: a move pending after one of these was
\* scheduled in the state that call produced.
C19_NoStaleAIMove ==
  /\ NoStaleMove
  /\ (Intervened /\ timer # <<>>) => timer[1].gameState = gameState

\* C19, amended: as stated, but the pending move is cancelled by the calls
\* that change currentTurn, status, aiHand, the current suit or the top
\* discard (initGame, p1, p4, a winning p3, a status change); a p3 that leaves
\* cards in the player's hand on the AI's turn keeps the pending move, which
\* differs from the current state in playerHand only.
C19_NoStaleAIInputs ==
  /\ NoStaleMove
  /\ timer # <<>> =>
       timer[1].gameState =
         [gameState EXCEPT !.playerHand = timer[1].gameState.playerHand]
  /\ (Intervened /\ ~AcceptedItem("p3") /\ timer # <<>>)
       => timer[1].gameState = gameState
  /\ (AcceptedItem("p3") /\ gameState.status = "playing"
        /\ gameState.currentTurn = "ai")
       => (timer # <<>> /\ timer[1].gameState.playerHand # gameState.playerHand)

\* p1 has been used while an AI move was pending, and the move pending now
\* was scheduled on the AI hand p1 produced.
C19_Witness ==
  /\ AcceptedItem("p1")
  /\ ev.pre.currentTurn = "ai"
  /\ Len(gameState.aiHand) > Len(ev.pre.aiHand)
  /\ timer # <<>>
  /\ timer[1].gameState.aiHand = gameState.aiHand
  /\ playableCardsOf(gameState) # playableCardsOf(ev.pre)

(* --------------------------------- C20 --------------------------------- *)

\* C20: an accepted DrawCard(actor) on a non-empty deck removes exactly the
\* last card of the deck and appends it to the actor's hand, and leaves
\* discardPile, the other hand, status and wildSuit unchanged; on an empty
\* deck it changes currentTurn only.
C20_DrawCardEffect ==
  \A isPlayer \in BOOLEAN :
    Drew(isPlayer) =>
      IF Len(ev.pre.deck) > 0
      THEN /\ gameState.deck = SubSeq(ev.pre.deck, 1, Len(ev.pre.deck) - 1)
           /\ handOf(gameState, isPlayer)
                = Append(handOf(ev.pre, isPlayer), ev.pre.deck[Len(ev.pre.deck)])
           /\ handOf(gameState, ~isPlayer) = handOf(ev.pre, ~isPlayer)
           /\ gameState.discardPile = ev.pre.discardPile
           /\ gameState.status = ev.pre.status
           /\ gameState.wildSuit = ev.pre.wildSuit
      ELSE /\ gameState = [ev.pre EXCEPT !.currentTurn = gameState.currentTurn]
           /\ gameState.currentTurn # ev.pre.currentTurn

\* The AI has drawn the top card of the deck on a wild suit it could not follow.
C20_Witness ==
  /\ Drew(FALSE)
  /\ Len(ev.pre.deck) > 1
  /\ ev.pre.wildSuit # NoSuit
  /\ gameState.wildSuit = ev.pre.wildSuit
  /\ Len(gameState.aiHand) = Len(ev.pre.aiHand) + 1

(* --------------------------------- C21 --------------------------------- *)

\* The positions of aiHand that hold a legal card: an 8, a card of the
\* current suit, or a card of the top discard's rank.
LegalAt(gs) ==
  {i \in 1..Len(gs.aiHand) :
     \/ gs.aiHand[i].rank = "8"
     \/ gs.aiHand[i].suit = (IF gs.wildSuit # NoSuit THEN gs.wildSuit
                             ELSE gs.discardPile[Len(gs.discardPile)].suit)
     \/ gs.aiHand[i].rank = gs.discardPile[Len(gs.discardPile)].rank}

LegalNonEightAt(gs) == {i \in LegalAt(gs) : gs.aiHand[i].rank # "8"}

EightAt(gs) == {i \in 1..Len(gs.aiHand) : gs.aiHand[i].rank = "8"}

First(S) == CHOOSE i \in S : \A j \in S : i <= j

\* C21: each AI move is the reference policy's: the first legal non-8 card
\* in aiHand order; if there is none, the first 8 of aiHand; if aiHand holds
\* no legal card, a draw.
C21_AIPolicy ==
  AIMoved =>
    IF LegalNonEightAt(ev.pre) # {}
    THEN Played(FALSE) /\ ev.card = ev.pre.aiHand[First(LegalNonEightAt(ev.pre))]
    ELSE IF EightAt(ev.pre) # {}
         THEN Played(FALSE) /\ ev.card = ev.pre.aiHand[First(EightAt(ev.pre))]
         ELSE Drew(FALSE) /\ LegalAt(ev.pre) = {}

\* The AI has played a legal non-8 card that came after an 8 in its hand.
C21_Witness ==
  /\ Played(FALSE)
  /\ ev.card.rank # "8"
  /\ \E i, j \in 1..Len(ev.pre.aiHand) :
       /\ i < j
       /\ ev.pre.aiHand[i].rank = "8"
       /\ ev.pre.aiHand[j] = ev.card

(* --------------------------------- C22 --------------------------------- *)

\* The number of cards of suit s in hand, and the first position of s in it
CountOf(hand, s) == Cardinality({i \in 1..Len(hand) : hand[i].suit = s})

FirstOf(hand, s) == First({i \in 1..Len(hand) : hand[i].suit = s})

\* C22: after the AI plays an 8, wildSuit is a suit of maximal count among
\* the cards left in aiHand, and among the suits of that count the one that
\* comes first in hand order; with no card left wildSuit is hearts and status
\* is ai_won; the round does not enter waiting_for_suit and currentTurn is
\* player in every case.
C22_AISuitChoice ==
  (Played(FALSE) /\ ev.card.rank = "8") =>
    LET rest == gameState.aiHand
        w    == gameState.wildSuit
    IN /\ Len(rest) = Len(ev.pre.aiHand) - 1
       /\ gameState.currentTurn = "player"
       /\ gameState.status # "waiting_for_suit"
       /\ IF rest = <<>>
          THEN w = "hearts" /\ gameState.status = "ai_won"
          ELSE /\ gameState.status = "playing"
               /\ w \in Suit
               /\ CountOf(rest, w) > 0
               /\ \A t \in Suit : CountOf(rest, t) <= CountOf(rest, w)
               /\ \A t \in Suit :
                    (t # w /\ CountOf(rest, t) = CountOf(rest, w))
                      => FirstOf(rest, w) < FirstOf(rest, t)

\* The AI has played an 8 and named the more frequent suit of its remaining
\* cards, which is not the suit of the first of them.
C22_Witness ==
  /\ Played(FALSE)
  /\ ev.card.rank = "8"
  /\ Len(gameState.aiHand) >= 3
  /\ gameState.wildSuit # gameState.aiHand[1].suit
  /\ CountOf(gameState.aiHand, gameState.wildSuit)
       > CountOf(gameState.aiHand, gameState.aiHand[1].suit)

(* --------------------------------- C23 --------------------------------- *)

\* C23: a call that is neither a power-up use nor initGame changes at most
\* the hand of the actor whose turn it was before it: playerHand is unchanged
\* by a call made on the AI's turn, aiHand by a call made on the player's.
C23_TurnOrder ==
  ~(Accepted("initGame") \/ Accepted("useItem")) =>
    /\ ev.pre.currentTurn = "ai" => gameState.playerHand = ev.pre.playerHand
    /\ ev.pre.currentTurn = "player" => gameState.aiHand = ev.pre.aiHand

\* The AI has moved on its turn, changing its hand and not the player's.
C23_Witness ==
  /\ AIMoved
  /\ ev.pre.currentTurn = "ai"
  /\ gameState.aiHand # ev.pre.aiHand
  /\ gameState.playerHand = ev.pre.playerHand
  /\ Len(gameState.playerHand) > 0

(* --------------------------------- C24 --------------------------------- *)

\* C24: no call lowers the p2 count of the inventory: not a power-up use,
\* not a win, not any other call.
C24_P2NeverConsumed ==
  inventory.p2 >= ev.preInventory.p2

\* A power-up has been used, in a round being played, while a p2 was held.
C24_Witness ==
  /\ Accepted("useItem")
  /\ ev.preInventory.p2 >= 1
  /\ inventory.p2 = ev.preInventory.p2
  /\ inventory[ev.item] = ev.preInventory[ev.item] - 1

(* --------------------------------- C25 --------------------------------- *)

NoLegalCard(hand, gs) == \A i \in 1..Len(hand) : ~matchesTop(hand[i], gs)

\* A round being played with an empty deck and no legal card in either hand
Stalled(gs) ==
  /\ gs.status = "playing"
  /\ Len(gs.discardPile) > 0
  /\ gs.deck = <<>>
  /\ NoLegalCard(gs.playerHand, gs)
  /\ NoLegalCard(gs.aiHand, gs)

\* C25: within a round the deck never gains a card, and from a stalled state
\* every call that is neither a power-up use nor initGame changes at most
\* currentTurn, which every draw passes on, so that the round stays stalled
\* and reaches neither player_won nor ai_won.
C25_NoReshuffleStall ==
  /\ ~Accepted("initGame") =>
       /\ Len(gameState.deck) <= Len(ev.pre.deck)
       /\ gameState.deck = SubSeq(ev.pre.deck, 1, Len(gameState.deck))
  /\ (Stalled(ev.pre) /\ ~Accepted("initGame") /\ ~Accepted("useItem")) =>
       /\ gameState = [ev.pre EXCEPT !.currentTurn = gameState.currentTurn]
       /\ Stalled(gameState)
       /\ ~Accepted("playCard")
       /\ Accepted("drawCard") => gameState.currentTurn # ev.pre.currentTurn

\* The AI has drawn from the empty deck of a stalled round in which both
\* actors hold cards, and the round is still stalled.
C25_Witness ==
  /\ Stalled(ev.pre)
  /\ Drew(FALSE)
  /\ ev.pre.playerHand # <<>>
  /\ ev.pre.aiHand # <<>>
  /\ Stalled(gameState)
  /\ gameState.currentTurn = "player"

(* --------------------------------- C26 --------------------------------- *)

\* C26: with the AI's timer weakly fair, whenever it is the AI's turn in a
\* dealt round being played, eventually the turn is the player's or the
\* round is finished (an initGame, too, hands the turn to the player).
C26_AITurnProgress ==
  (Dealt /\ gameState.currentTurn = "ai" /\ gameState.status = "playing")
    ~> (gameState.currentTurn = "player" \/ Terminal(gameState))

\* The AI has moved after the last call of the user that is explored, and
\* the turn is the player's.
C26_Witness ==
  /\ AIMoved
  /\ steps = 0
  /\ ev.pre.currentTurn = "ai"
  /\ ev.pre.status = "playing"
  /\ gameState.currentTurn = "player"
  /\ timer = <<>>

(* --------------------------------- C27 --------------------------------- *)

\* C27: in every reachable state the star balance and the inventory count of
\* each of p1, p2, p3 and p4 are at least 0, whatever wins, redemptions and
\* power-up uses came before.
C27_BalancesNonNegative ==
  /\ stars >= 0
  /\ \A id \in Prize : inventory[id] >= 0

\* The last item in stock of a power-up has been used by a player without a
\* star: both balances stand at their floor.
C27_Witness ==
  /\ Accepted("useItem")
  /\ ev.preInventory[ev.item] = 1
  /\ inventory[ev.item] = 0
  /\ stars = 0
  /\ ev.preStars = 0

(* --------------------------------- C28 --------------------------------- *)

\* C28 as stated: in every state of a dealt round whose status is playing,
\* playerHand and aiHand are both non-empty.
C28_HandsNonEmptyWhilePlaying ==
  (Dealt /\ gameState.status = "playing")
    => (Len(gameState.playerHand) > 0 /\ Len(gameState.aiHand) > 0)

(* --------------------------------- C29 --------------------------------- *)

\* C29: the AI makes at most one move per AI turn.  From the call that passes
\* the turn to the AI in a round being played to the next call that hands it
\* to the player, at most one AI play or draw is applied; the call that hands
\* the turn to the player is that move itself, unless it is an initGame; and
\* a p1 or p3 used meanwhile leaves exactly one move pending, never a second.
C29_OneAIMovePerTurn ==
  /\ AIMovesInTurn <= 1
  /\ Len(timer) <= 1
  /\ AIMoved =>
       /\ ev.pre.currentTurn = "ai"
       /\ gameState.currentTurn = "player"
       /\ AIMovesInTurn = 1
       /\ timer = <<>>
  /\ (ev.pre.currentTurn = "ai" /\ gameState.currentTurn = "player"
        /\ ~Accepted("initGame"))
       => AIMoved
  /\ (Accepted("useItem") /\ ev.pre.currentTurn = "ai"
        /\ gameState.status = "playing")
       => (gameState.currentTurn = "ai" /\ Len(timer) = 1 /\ AIMovesInTurn = 0)

\* The AI has made the one move of a turn during which a power-up was used.
C29_Witness ==
  /\ AIMoved
  /\ ItemsInTurn
  /\ AIMovesInTurn = 1
  /\ gameState.currentTurn = "player"
  /\ gameState.status = "playing"

(* --------------------------------- C30 --------------------------------- *)

\* The number of cards with this id in deck, discardPile, playerHand and
\* aiHand taken together.
Occurrences(gs, id) ==
  Cardinality({i \in 1..Len(allCards(gs)) : allCards(gs)[i].id = id})

\* C30: in every reachable state, also after p1, p3 and p4, each card id
\* occurs at most once across deck, discardPile, playerHand and aiHand.
C30_NoDuplicateCard ==
  LET all == allCards(gameState)
  IN \A i \in 1..Len(all) : \A j \in (i + 1)..Len(all) : all[i].id # all[j].id

\* p3 has been used in a round in which p1 had already moved cards to the AI
\* hand: some cards have left the round, the others are held once each.
C30_Witness ==
  /\ AcceptedItem("p3")
  /\ ev.preInventory.p1 = 0
  /\ Len(gameState.aiHand) > HandSize + 1
  /\ Len(allCards(gameState)) < Len(allCards(ev.pre))
  /\ gameState.status = "playing"
  /\ \E c \in Card : Occurrences(gameState, c.id) = 0
  /\ \E c \in Card : Occurrences(gameState, c.id) = 1

(* --------------------------------- C31 --------------------------------- *)

\* C31: in every reachable state the suit picker is open if and only if
\* status is waiting_for_suit, and a suit is chosen only in that status; so
\* it is in the shop variant and, while it is followed, in the basic variant.
C31_PickerIffWaiting ==
  /\ showSuitPicker <=> gameState.status = "waiting_for_suit"
  /\ Accepted("chooseSuit") => ev.pre.status = "waiting_for_suit"
  /\ basic.tracked =>
       (basic.showSuitPicker <=> basic.gameState.status = "waiting_for_suit")

\* The player has played an 8 during play: the picker is open and a suit is
\* awaited.
C31_Witness ==
  /\ Played(TRUE)
  /\ ev.card.rank = "8"
  /\ showSuitPicker
  /\ gameState.status = "waiting_for_suit"
  /\ ~showHome
  /\ ev.pre.status = "playing"

(* --------------------------------- C32 --------------------------------- *)

\* C32: given the same shuffled decks and the same sequence of initGame,
\* player plays, player draws, suit choices and AI timeouts, with no power-up
\* used since the last initGame, the basic variant and the shop variant hold
\* the same GameState (deck, discardPile, playerHand, aiHand, currentTurn,
\* status, wildSuit) after every step; the AI moves they have pending are
\* the same too, so that the same timeouts are due in both.
C32_VariantsAgree ==
  basic.tracked =>
    /\ basic.gameState = gameState
    /\ basic.timer = <<>> <=> timer = <<>>
    /\ timer # <<>> => basic.timer[1] = timer[1].gameState

\* The AI has played an 8 in both variants, keeping cards of two suits, and
\* both have chosen the same suit, which is not the suit of the 8.
C32_Witness ==
  /\ basic.tracked
  /\ Played(FALSE)
  /\ ev.card.rank = "8"
  /\ Len(gameState.aiHand) >= 2
  /\ gameState.aiHand[1].suit # gameState.aiHand[2].suit
  /\ gameState.wildSuit # ev.card.suit
  /\ basic.gameState.wildSuit = gameState.wildSuit
  /\ basic.gameState.aiHand = gameState.aiHand

====
